---------------------------- MODULE Spec2Model ----------------------------
(***************************************************************************)
(* A model of package pjutil (prow): the four ProwJobSpec builders,        *)
(* ProwJobToPod, PartitionActive and GetLatestProwJobs.                     *)
(*                                                                         *)
(* Each component has its own specification over the shared variables:     *)
(*   SpecBuild      the spec builders applied to a template tree           *)
(*   SpecPartition  PartitionActive, step by step, then channel consumers  *)
(*   SpecLatest     GetLatestProwJobs, one loop iteration per step         *)
(*   SpecPod        two concurrent ProwJobToPod calls on one record, with  *)
(*                  the Env slices' backing arrays kept in a heap          *)
(***************************************************************************)
EXTENDS Integers, Sequences, FiniteSets, TLC

VARIABLES
    \* ---- spec builders
    tmpl,            \* the template handed to the builder
    refs,            \* the refs handed to the builder
    builder,         \* which builder ran ("none" before the call)
    built,           \* the returned ProwJobSpec, NotBuilt before the call
    \* ---- PartitionActive and its consumers
    pjs,             \* the input slice
    ppc,             \* position inside PartitionActive
    idx,             \* loop index of the running pass
    pendingCount,
    triggeredCount,
    pending,         \* the pending channel
    triggered,       \* the triggered channel
    consumers,       \* the goroutines ranging over a returned channel
    \* ---- GetLatestProwJobs
    ljobs,           \* the input slice
    jobType,         \* the requested type
    lidx,            \* loop index
    latestJobs,      \* the map under construction
    lpc,             \* position inside GetLatestProwJobs
    \* ---- ProwJobToPod
    record,          \* the source ProwJob
    heap,            \* backing arrays of the Env slices
    calls            \* the running ProwJobToPod calls

buildVars == <<tmpl, refs, builder, built>>
partVars  == <<pjs, ppc, idx, pendingCount, triggeredCount, pending, triggered, consumers>>
latestVars == <<ljobs, jobType, lidx, latestJobs, lpc>>
podVars   == <<record, heap, calls>>
vars == <<buildVars, partVars, latestVars, podVars>>
\* What an action of one component leaves alone: the other components.
notPartVars   == <<buildVars, latestVars, podVars>>
notLatestVars == <<buildVars, partVars, podVars>>
notPodVars    == <<buildVars, partVars, latestVars>>

---------------------------------------------------------------------------
(* Bounds of the model. *)

\* Templates have at most this many nodes (root and all descendants).
MaxNodes == 4
\* Input slices of PartitionActive have at most this many records.
MaxRecords == 3
\* Goroutines draining the channels PartitionActive returned.
NumConsumers == 2
\* Input slices of GetLatestProwJobs have at most this many records.
MaxLatest == 3
\* Start timestamps range over 0..MaxTime; 0 is the zero time.Time.
MaxTime == 2
\* A source pod template has at most this many containers, init-containers included.
MaxContainers == 2
\* Spare cells (cap - len) of a source Env slice that has spare capacity.
Spare == 2

---------------------------------------------------------------------------
(* Values shared by the components. *)

PresubmitJob  == "presubmit"
PostsubmitJob == "postsubmit"
PeriodicJob   == "periodic"
BatchJob      == "batch"

KubernetesAgent == "kubernetes"
JenkinsAgent    == "jenkins"
DefaultClusterAlias == "default"

TriggeredState == "triggered"
PendingState   == "pending"
SuccessState   == "success"
FailureState   == "failure"
AbortedState   == "aborted"
ErrorState     == "error"
ProwJobStates  == {TriggeredState, PendingState, SuccessState,
                   FailureState, AbortedState, ErrorState}

\* The zero value of kube.Refs.
EmptyRefs == [Org |-> "", Repo |-> "", BaseRef |-> "", Pulls |-> <<>>]
\* The refs a caller passes to a builder.
RefSets == { [Org |-> "kubernetes", Repo |-> "test-infra", BaseRef |-> "master", Pulls |-> <<>>],
             [Org |-> "kubernetes", Repo |-> "kubernetes", BaseRef |-> "master", Pulls |-> <<1234>>] }

\* A nil *v1.PodSpec, the zero v1.PodSpec, and a pod spec a template carries.
NilPodSpec  == [nil |-> TRUE]
ZeroPodSpec == [Containers |-> <<>>]
SomePodSpec == [Containers |-> <<"image">>]

---------------------------------------------------------------------------
(* The spec builders: PresubmitSpec, PostsubmitSpec, PeriodicSpec, BatchSpec. *)

\* The scalar fields of the templates the model feeds to the builders
\* (config.Presubmit / config.Postsubmit / config.Periodic); RunAfterSuccess is
\* filled in by TreesOf. The last one names the kubernetes agent without a pod
\* spec: the builders dereference its nil Spec.
TemplateLabels ==
    { [Name |-> "foo", Agent |-> KubernetesAgent, Spec |-> SomePodSpec, Cluster |-> "",
       Context |-> "ctx-foo", SkipReport |-> FALSE, RerunCommand |-> "/test foo",
       MaxConcurrency |-> 0, RunAfterSuccess |-> <<>>],
      [Name |-> "bar", Agent |-> JenkinsAgent, Spec |-> NilPodSpec, Cluster |-> "",
       Context |-> "ctx-bar", SkipReport |-> TRUE, RerunCommand |-> "/test bar",
       MaxConcurrency |-> 2, RunAfterSuccess |-> <<>>],
      [Name |-> "baz", Agent |-> KubernetesAgent, Spec |-> SomePodSpec, Cluster |-> "build",
       Context |-> "ctx-baz", SkipReport |-> FALSE, RerunCommand |-> "/test baz",
       MaxConcurrency |-> 1, RunAfterSuccess |-> <<>>],
      [Name |-> "qux", Agent |-> KubernetesAgent, Spec |-> NilPodSpec, Cluster |-> "",
       Context |-> "ctx-qux", SkipReport |-> FALSE, RerunCommand |-> "/test qux",
       MaxConcurrency |-> 0, RunAfterSuccess |-> <<>>] }

RECURSIVE TreesOf(_), ForestsOf(_)
\* The template trees with exactly n nodes.
TreesOf(n) ==
    IF n = 0 THEN {}
    ELSE { [l EXCEPT !.RunAfterSuccess = f] : l \in TemplateLabels, f \in ForestsOf(n - 1) }
\* The sequences of template trees with n nodes in all.
ForestsOf(n) ==
    IF n = 0 THEN { <<>> }
    ELSE UNION { { <<t>> \o f : t \in TreesOf(k), f \in ForestsOf(n - k) } : k \in 1..n }

Templates == UNION { TreesOf(n) : n \in 1..MaxNodes }

\* The outcome of a builder that dereferenced a nil pod spec.
Panic == [panic |-> TRUE]
IsPanic(s) == "panic" \in DOMAIN s
\* built before any builder ran.
NotBuilt == [notbuilt |-> TRUE]
IsSpec(s) == "Job" \in DOMAIN s

\* The zero kube.ProwJobSpec, with the fields a builder's literal sets.
BaseSpec(type, job, r, report, context, rerun, maxc) ==
    [Type |-> type, Job |-> job, Refs |-> r, Report |-> report, Context |-> context,
     RerunCommand |-> rerun, MaxConcurrency |-> maxc,
     Agent |-> "", PodSpec |-> ZeroPodSpec, Cluster |-> "", RunAfterSuccess |-> <<>>]

\* pjs.Agent = ...; if pjs.Agent == kube.KubernetesAgent { PodSpec, Cluster }
\* and the children appended in order. kids are the children's specs.
WithAgent(pjs0, p, kids) ==
    LET a == [pjs0 EXCEPT !.Agent = p.Agent]
        b == IF p.Agent = KubernetesAgent
             THEN [a EXCEPT !.PodSpec = p.Spec,
                            !.Cluster = IF p.Cluster = "" THEN DefaultClusterAlias ELSE p.Cluster]
             ELSE a
    IN  [b EXCEPT !.RunAfterSuccess = kids]

\* *p.Spec on a nil Spec panics.
Derefs(p) == ~(p.Agent = KubernetesAgent /\ p.Spec = NilPodSpec)

\* A builder's result from its own node and its children's results.
Assemble(pjs0, p, kids) ==
    IF ~Derefs(p) \/ (\E i \in 1..Len(kids) : IsPanic(kids[i]))
    THEN Panic
    ELSE WithAgent(pjs0, p, kids)

RECURSIVE PresubmitSpec(_, _), PostsubmitSpec(_, _), PeriodicSpec(_), BatchSpec(_, _)

\* A PresubmitSpec that builds its children with BatchSpec.
PresubmitSpecMixed(p, r) ==
    Assemble(BaseSpec(PresubmitJob, p.Name, r, ~p.SkipReport, p.Context,
                      p.RerunCommand, p.MaxConcurrency),
             p,
             [i \in 1..Len(p.RunAfterSuccess) |-> BatchSpec(p.RunAfterSuccess[i], r)])

PresubmitSpec(p, r) ==
    Assemble(BaseSpec(PresubmitJob, p.Name, r, ~p.SkipReport, p.Context,
                      p.RerunCommand, p.MaxConcurrency),
             p,
             [i \in 1..Len(p.RunAfterSuccess) |-> PresubmitSpec(p.RunAfterSuccess[i], r)])

PostsubmitSpec(p, r) ==
    Assemble(BaseSpec(PostsubmitJob, p.Name, r, FALSE, "", "", p.MaxConcurrency),
             p,
             [i \in 1..Len(p.RunAfterSuccess) |-> PostsubmitSpec(p.RunAfterSuccess[i], r)])

PeriodicSpec(p) ==
    Assemble(BaseSpec(PeriodicJob, p.Name, EmptyRefs, FALSE, "", "", 0),
             p,
             [i \in 1..Len(p.RunAfterSuccess) |-> PeriodicSpec(p.RunAfterSuccess[i])])

\* A BatchSpec whose recursive call passes no refs.
BatchSpecDropsRefs(p, r) ==
    Assemble(BaseSpec(BatchJob, p.Name, r, FALSE, p.Context, "", 0),
             p,
             [i \in 1..Len(p.RunAfterSuccess) |-> BatchSpec(p.RunAfterSuccess[i], EmptyRefs)])

BatchSpec(p, r) ==
    Assemble(BaseSpec(BatchJob, p.Name, r, FALSE, p.Context, "", 0),
             p,
             [i \in 1..Len(p.RunAfterSuccess) |-> BatchSpec(p.RunAfterSuccess[i], r)])

---------------------------------------------------------------------------
(* PartitionActive, and the goroutines that range over its channels. *)

\* The records of an input slice: the states are the input, the names are
\* unique (the position in the slice).
MkJobs(states) ==
    [i \in 1..Len(states) |-> [Name |-> "pj" \o ToString(i), State |-> states[i]]]

PartitionInputs ==
    { MkJobs(st) : st \in UNION { [1..n -> ProwJobStates] : n \in 0..MaxRecords } }

\* A channel value: nil before make.
NilChan == [made |-> FALSE, cap |-> 0, buf |-> <<>>, closed |-> FALSE]

\* make(chan kube.ProwJob) without a size.
MakeUnbuffered(n) == [made |-> TRUE, cap |-> 0, buf |-> <<>>, closed |-> FALSE]

\* make(chan kube.ProwJob, n)
MakeChan(n) == [made |-> TRUE, cap |-> n, buf |-> <<>>, closed |-> FALSE]

\* A close that is left out.
CloseSkipped(ch) == ch

\* close(ch)
Close(ch) == [ch EXCEPT !.closed = TRUE]

\* A switch with the two cases' channels exchanged.
GroupSwapped(pj) ==
    CASE pj.State = PendingState   -> "triggered"
      [] pj.State = TriggeredState -> "pending"
      [] OTHER                     -> "none"

\* switch pj.Status.State: the case a record takes, in both passes.
Group(pj) ==
    CASE pj.State = PendingState   -> "pending"
      [] pj.State = TriggeredState -> "triggered"
      [] OTHER                     -> "none"

\* A send on a buffered channel proceeds only while the buffer has room
\* (no receiver is running during PartitionActive).
CanSend(ch) == ch.made /\ ~ch.closed /\ Len(ch.buf) < ch.cap

\* First pass, one iteration.
CountStep ==
    /\ ppc = "count"
    /\ idx <= Len(pjs)
    /\ pendingCount' = IF Group(pjs[idx]) = "pending" THEN pendingCount + 1 ELSE pendingCount
    /\ triggeredCount' = IF Group(pjs[idx]) = "triggered" THEN triggeredCount + 1
                         ELSE triggeredCount
    /\ idx' = idx + 1
    /\ UNCHANGED <<pjs, ppc, pending, triggered, consumers, notPartVars>>

\* The two make calls after the first pass.
MakeChans ==
    /\ ppc = "count"
    /\ idx > Len(pjs)
    /\ pending' = MakeChan(pendingCount)
    /\ triggered' = MakeChan(triggeredCount)
    /\ ppc' = "send"
    /\ idx' = 1
    /\ UNCHANGED <<pjs, pendingCount, triggeredCount, consumers, notPartVars>>

\* Second pass, one iteration; a send that cannot proceed blocks the pass.
SendStep ==
    /\ ppc = "send"
    /\ idx <= Len(pjs)
    /\ \/ /\ Group(pjs[idx]) = "pending"
          /\ CanSend(pending)
          /\ pending' = [pending EXCEPT !.buf = Append(@, pjs[idx])]
          /\ UNCHANGED triggered
       \/ /\ Group(pjs[idx]) = "triggered"
          /\ CanSend(triggered)
          /\ triggered' = [triggered EXCEPT !.buf = Append(@, pjs[idx])]
          /\ UNCHANGED pending
       \/ /\ Group(pjs[idx]) = "none"
          /\ UNCHANGED <<pending, triggered>>
    /\ idx' = idx + 1
    /\ UNCHANGED <<pjs, ppc, pendingCount, triggeredCount, consumers, notPartVars>>

ClosePending ==
    /\ ppc = "send"
    /\ idx > Len(pjs)
    /\ pending' = Close(pending)
    /\ ppc' = "closeTriggered"
    /\ UNCHANGED <<pjs, idx, pendingCount, triggeredCount, triggered, consumers, notPartVars>>

\* close(triggered) and the return.
CloseTriggered ==
    /\ ppc = "closeTriggered"
    /\ triggered' = Close(triggered)
    /\ ppc' = "done"
    /\ UNCHANGED <<pjs, idx, pendingCount, triggeredCount, pending, consumers, notPartVars>>

PartitionActive == CountStep \/ MakeChans \/ SendStep \/ ClosePending \/ CloseTriggered

Consumers == 1..NumConsumers
ChanOf(g) == IF g = "pending" THEN pending ELSE triggered

\* for pj := range ch, one received value (the channels are in the
\* consumers' hands only once PartitionActive returned them).
Receive(c) ==
    /\ ppc = "done"
    /\ ~consumers[c].done
    /\ Len(ChanOf(consumers[c].group).buf) > 0
    /\ LET ch == ChanOf(consumers[c].group) IN
         /\ consumers' = [consumers EXCEPT ![c].got = Append(@, Head(ch.buf))]
         /\ IF consumers[c].group = "pending"
            THEN pending' = [pending EXCEPT !.buf = Tail(@)] /\ UNCHANGED triggered
            ELSE triggered' = [triggered EXCEPT !.buf = Tail(@)] /\ UNCHANGED pending
    /\ UNCHANGED <<pjs, ppc, idx, pendingCount, triggeredCount, notPartVars>>

\* for pj := range ch ends: the channel is closed and drained.
Exhausted(c) ==
    /\ ppc = "done"
    /\ ~consumers[c].done
    /\ ChanOf(consumers[c].group).buf = <<>>
    /\ ChanOf(consumers[c].group).closed
    /\ consumers' = [consumers EXCEPT ![c].done = TRUE]
    /\ UNCHANGED <<pjs, ppc, idx, pendingCount, triggeredCount, pending, triggered, notPartVars>>

Consume(c) == Receive(c) \/ Exhausted(c)

---------------------------------------------------------------------------
(* GetLatestProwJobs. *)

JobNames == {"foo", "bar"}
LatestTypes == {PresubmitJob, PostsubmitJob}
TimeStamps == 0..MaxTime
\* The zero metav1.Time, the StartTime of a missing map entry.
ZeroTime == 0

LatestFields == [Job : JobNames, Type : LatestTypes, StartTime : TimeStamps]

MkLatest(fs) ==
    [i \in 1..Len(fs) |-> [Name |-> "pj" \o ToString(i), Job |-> fs[i].Job,
                           Type |-> fs[i].Type, StartTime |-> fs[i].StartTime]]

LatestInputs ==
    { MkLatest(fs) : fs \in UNION { [1..n -> LatestFields] : n \in 0..MaxLatest } }

\* The zero kube.ProwJob a map read of a missing key returns.
ZeroProwJob == [Name |-> "", Job |-> "", Type |-> "", StartTime |-> ZeroTime]

\* latestJobs[name]
Lookup(m, name) == IF name \in DOMAIN m THEN m[name] ELSE ZeroProwJob

\* latestJobs[name] = j
Store(m, name, j) == [n \in DOMAIN m \cup {name} |-> IF n = name THEN j ELSE m[n]]

\* t.After(u)
After(t, u) == t > u

\* One iteration of the loop.
LatestStep ==
    /\ lpc = "loop"
    /\ lidx <= Len(ljobs)
    /\ LET j == ljobs[lidx] IN
         latestJobs' =
            IF j.Type # jobType THEN latestJobs
            ELSE IF After(j.StartTime, Lookup(latestJobs, j.Job).StartTime)
                 THEN Store(latestJobs, j.Job, j)
                 ELSE latestJobs
    /\ lidx' = lidx + 1
    /\ UNCHANGED <<ljobs, jobType, lpc, notLatestVars>>

LatestReturn ==
    /\ lpc = "loop"
    /\ lidx > Len(ljobs)
    /\ lpc' = "done"
    /\ UNCHANGED <<ljobs, jobType, lidx, latestJobs, notLatestVars>>

GetLatestProwJobs == LatestStep \/ LatestReturn

---------------------------------------------------------------------------
(* ProwJobToPod. A slice is a header [arr, len, cap] over a backing array  *)
(* kept in heap; copying a container copies the header, not the array.     *)

Nil == "nil"
NilPod == [nil |-> TRUE]
DerivationError == "DerivationError"

CreatedByProw    == "created-by-prow"
ProwJobTypeLabel == "prow.k8s.io/type"
ProwJobAnnotation == "prow.k8s.io/job"

\* The zero v1.EnvVar, the content of a backing array's unused cells.
ZeroEnvVar == [Name |-> "", Value |-> ""]
\* An entry the template's author put in a container's Env.
PreEnvVar == [Name |-> "PRE", Value |-> "set"]

\* The calls of ProwJobToPod that run concurrently on the one record.
Procs == {1, 2}
\* The build id of call p.
BuildIDOf(p) == ToString(p)

\* Name and Env shape of a source container: an Env of one entry whose
\* backing array is full (append moves it, as it does a nil Env), and one
\* whose backing array has spare capacity (append writes in place).
ContainerNames == {"", "test"}
EnvShapes == { [len |-> 1, cap |-> 1], [len |-> 1, cap |-> 1 + Spare] }
ContainerKinds == [Name : ContainerNames, shape : EnvShapes]

\* The backing array of a source container's Env: len entries, then zero cells.
SourceArray(shape) ==
    [j \in 1..shape.cap |-> IF j <= shape.len THEN PreEnvVar ELSE ZeroEnvVar]

\* The source containers of one list; kind is "init" or "cont". Arrays are
\* named <<owner, kind, index>>, owner 0 being the source record.
MkContainers(kinds, kind) ==
    [i \in 1..Len(kinds) |->
        [Name |-> kinds[i].Name,
         Env  |-> [arr |-> <<0, kind, i>>, len |-> kinds[i].shape.len, cap |-> kinds[i].shape.cap]]]

KindSeqs(n) == [1..n -> ContainerKinds]

\* The source records: a ProwJob named "pj" with at most MaxContainers
\* containers and init-containers together.
PodInputs ==
    { [Name |-> "pj", Job |-> "unit-test", Type |-> PresubmitJob,
       Labels |-> ("team" :> "infra"),
       InitKinds |-> ik, ContKinds |-> ck,
       InitContainers |-> MkContainers(ik, "init"),
       Containers |-> MkContainers(ck, "cont")] :
      ik \in UNION { KindSeqs(n) : n \in 0..MaxContainers },
      ck \in UNION { KindSeqs(n) : n \in 0..MaxContainers } }

BoundedPodInputs ==
    { r \in PodInputs : Len(r.InitContainers) + Len(r.Containers) <= MaxContainers }

\* The heap a record starts with: the backing arrays of its Env slices.
InitialHeap(r) ==
    [a \in { <<0, "init", i>> : i \in 1..Len(r.InitContainers) }
           \cup { <<0, "cont", i>> : i \in 1..Len(r.Containers) } |->
        IF a[2] = "init" THEN SourceArray(r.InitKinds[a[3]].shape)
        ELSE SourceArray(r.ContKinds[a[3]].shape)]

\* EnvForSpec(NewJobSpec(pj.Spec, buildID, pj.Name)): the environment mapping,
\* or an error; ok is whether the derivation succeeds.
EnvForSpec(r, buildID, ok) ==
    IF ok
    THEN [env |-> ("BUILD_NUMBER" :> buildID) @@ ("JOB_NAME" :> r.Job), err |-> Nil]
    ELSE [env |-> <<>>, err |-> DerivationError]

\* kubeEnv(env): the entries of the map, in any iteration order.
KubeEnv(env) ==
    LET keys == DOMAIN env
        n    == Cardinality(keys)
        orders == { o \in [1..n -> keys] : \A a, b \in 1..n : a # b => o[a] # o[b] }
    IN  { [j \in 1..n |-> [Name |-> o[j], Value |-> env[o[j]]]] : o \in orders }

\* fmt.Sprintf("%s-%d", name, i) with the 0-based index i.
Sprintf(name, i) == name \o "-" \o ToString(i)

\* if c.Name == "" { c.Name = fmt.Sprintf("%s-%d", pj.ObjectMeta.Name, i) };
\* i1 is the 1-based position.
DefaultName(c, r, i1) ==
    IF c.Name = "" THEN [c EXCEPT !.Name = Sprintf(r.Name, i1 - 1)] ELSE c

\* A call before it starts.
NewCall(buildID) ==
    [pc |-> "start", buildID |-> buildID, derived |-> "none", env |-> <<>>,
     phase |-> "init", i |-> 1, k |-> 1, kenv |-> <<>>,
     init |-> <<>>, conts |-> <<>>, pod |-> NilPod, err |-> Nil]

SourceList(r, phase) == IF phase = "init" THEN r.InitContainers ELSE r.Containers
CopyList(c, phase) == IF phase = "init" THEN c.init ELSE c.conts
SetCopyList(c, phase, l) ==
    IF phase = "init" THEN [c EXCEPT !.init = l] ELSE [c EXCEPT !.conts = l]

\* The init-container loop ends when its index passes the last
\* init-container: spec.Containers = []v1.Container{} and the second loop starts.
Advance(r, c) ==
    IF c.phase = "init" /\ c.i > Len(r.InitContainers)
    THEN [c EXCEPT !.phase = "cont", !.i = 1, !.conts = <<>>]
    ELSE c

\* An error path that hands back the pod built from the unprocessed template.
DeriveFailedPartial(c, d) ==
    [c EXCEPT !.pc = "done", !.derived = "failed",
              !.pod = [Name |-> "", Labels |-> <<>>, Annotations |-> <<>>,
                       Spec |-> [RestartPolicy |-> "", InitContainers |-> <<>>,
                                 Containers |-> <<>>]],
              !.err = d.err]

\* if err != nil { return nil, err }
DeriveFailed(c, d) ==
    [c EXCEPT !.pc = "done", !.derived = "failed", !.pod = NilPod, !.err = d.err]

\* The call to the deriver and the error check.
Start(p) ==
    /\ calls[p].pc = "start"
    /\ \E ok \in BOOLEAN :
         LET d == EnvForSpec(record, calls[p].buildID, ok) IN
           calls' = [calls EXCEPT ![p] =
                       IF d.err # Nil THEN DeriveFailed(@, d)
                       ELSE Advance(record,
                                    [@ EXCEPT !.pc = "loop", !.derived = "ok", !.env = d.env,
                                              !.phase = "init", !.i = 1, !.init = <<>>])]
    /\ UNCHANGED <<record, heap, notPodVars>>

\* One iteration up to the append of the environment: the container is
\* copied (its Env header with it) and named. When the Env's backing array
\* has room for the new entries, append writes them there, cell by cell
\* (WriteStep); otherwise it moves the entries to a new array of the call's own.
LoopStep(p) ==
    LET c   == calls[p]
        src == SourceList(record, c.phase)
    IN
    /\ c.pc = "loop"
    /\ c.i <= Len(src)
    /\ \E kenv \in KubeEnv(c.env) :
         LET c1 == DefaultName(src[c.i], record, c.i)
             e  == c1.Env
             n  == Len(kenv)
         IN
           IF e.len + n <= e.cap
           THEN /\ calls' = [calls EXCEPT ![p] =
                               [SetCopyList(c, c.phase, Append(CopyList(c, c.phase), c1))
                                  EXCEPT !.pc = "write", !.k = 1, !.kenv = kenv]]
                /\ UNCHANGED heap
           ELSE LET a  == <<p, c.phase, c.i>>
                    c2 == [c1 EXCEPT !.Env = [arr |-> a, len |-> e.len + n, cap |-> e.len + n]]
                IN
                /\ heap' = heap @@ (a :> (SubSeq(heap[e.arr], 1, e.len) \o kenv))
                /\ calls' = [calls EXCEPT ![p] =
                               Advance(record,
                                       [SetCopyList(c, c.phase, Append(CopyList(c, c.phase), c2))
                                          EXCEPT !.i = c.i + 1])]
    /\ UNCHANGED <<record, notPodVars>>

\* append in place: one entry is written past the slice's length into the
\* backing array the copy shares with the source; after the last one the
\* copy's header gets the new length.
WriteStep(p) ==
    LET c    == calls[p]
        list == CopyList(c, c.phase)
        e    == list[c.i].Env
    IN
    /\ c.pc = "write"
    /\ heap' = [heap EXCEPT ![e.arr][e.len + c.k] = c.kenv[c.k]]
    /\ calls' = [calls EXCEPT ![p] =
                   IF c.k < Len(c.kenv)
                   THEN [c EXCEPT !.k = c.k + 1]
                   ELSE Advance(record,
                                [SetCopyList(c, c.phase,
                                             [list EXCEPT ![c.i].Env.len = e.len + Len(c.kenv)])
                                   EXCEPT !.pc = "loop", !.i = c.i + 1, !.kenv = <<>>, !.k = 1])]
    /\ UNCHANGED <<record, notPodVars>>

\* podLabels: the record's labels and the two markers.
PodLabels(r) ==
    (CreatedByProw :> "true") @@ (ProwJobTypeLabel :> r.Type) @@ r.Labels

\* The container loop ends: the labels are built and the pod is returned.
Return(p) ==
    /\ calls[p].pc = "loop"
    /\ calls[p].phase = "cont"
    /\ calls[p].i > Len(record.Containers)
    /\ calls' = [calls EXCEPT ![p] =
                   [@ EXCEPT !.pc = "done",
                             !.pod = [Name |-> record.Name,
                                      Labels |-> PodLabels(record),
                                      Annotations |-> (ProwJobAnnotation :> record.Job),
                                      Spec |-> [RestartPolicy |-> "Never",
                                                InitContainers |-> calls[p].init,
                                                Containers |-> calls[p].conts]],
                             !.err = Nil]]
    /\ UNCHANGED <<record, heap, notPodVars>>

ProwJobToPod(p) == Start(p) \/ LoopStep(p) \/ WriteStep(p) \/ Return(p)

---------------------------------------------------------------------------
(* The specifications. A component that a specification leaves out stays   *)
(* in its idle state.                                                      *)

IdleBuild ==
    /\ tmpl = <<>>
    /\ refs = EmptyRefs
    /\ builder = "none"
    /\ built = NotBuilt

IdlePartition ==
    /\ pjs = <<>>
    /\ ppc = "idle"
    /\ idx = 0
    /\ pendingCount = 0
    /\ triggeredCount = 0
    /\ pending = NilChan
    /\ triggered = NilChan
    /\ consumers = <<>>

IdleLatest ==
    /\ ljobs = <<>>
    /\ jobType = ""
    /\ lidx = 0
    /\ latestJobs = <<>>
    /\ lpc = "idle"

IdlePod ==
    /\ record = <<>>
    /\ heap = <<>>
    /\ calls = <<>>

\* ---- the builders
InitBuild ==
    /\ tmpl \in Templates
    /\ refs \in RefSets
    /\ builder = "none"
    /\ built = NotBuilt
    /\ IdlePartition /\ IdleLatest /\ IdlePod

RunPresubmitSpec ==
    /\ builder = "none"
    /\ builder' = "PresubmitSpec"
    /\ built' = PresubmitSpec(tmpl, refs)
    /\ UNCHANGED <<tmpl, refs, partVars, latestVars, podVars>>

RunPostsubmitSpec ==
    /\ builder = "none"
    /\ builder' = "PostsubmitSpec"
    /\ built' = PostsubmitSpec(tmpl, refs)
    /\ UNCHANGED <<tmpl, refs, partVars, latestVars, podVars>>

RunPeriodicSpec ==
    /\ builder = "none"
    /\ builder' = "PeriodicSpec"
    /\ built' = PeriodicSpec(tmpl)
    /\ UNCHANGED <<tmpl, refs, partVars, latestVars, podVars>>

RunBatchSpec ==
    /\ builder = "none"
    /\ builder' = "BatchSpec"
    /\ built' = BatchSpec(tmpl, refs)
    /\ UNCHANGED <<tmpl, refs, partVars, latestVars, podVars>>

NextBuild == RunPresubmitSpec \/ RunPostsubmitSpec \/ RunPeriodicSpec \/ RunBatchSpec

SpecBuild == InitBuild /\ [][NextBuild]_vars

\* ---- PartitionActive and the consumers of its channels
InitPartition ==
    /\ pjs \in PartitionInputs
    /\ ppc = "count"
    /\ idx = 1
    /\ pendingCount = 0
    /\ triggeredCount = 0
    /\ pending = NilChan
    /\ triggered = NilChan
    /\ consumers \in [Consumers -> [group : {"pending", "triggered"}, got : {<<>>}, done : {FALSE}]]
    /\ IdleBuild /\ IdleLatest /\ IdlePod

NextPartition == PartitionActive \/ \E c \in Consumers : Consume(c)

\* PartitionActive runs on unless a send blocks it, and the scheduler lets
\* every goroutine that can take a step take one.
SpecPartition ==
    /\ InitPartition
    /\ [][NextPartition]_vars
    /\ WF_vars(PartitionActive)
    /\ \A c \in Consumers : WF_vars(Consume(c))

\* ---- GetLatestProwJobs
InitLatest ==
    /\ ljobs \in LatestInputs
    /\ jobType \in LatestTypes
    /\ lidx = 1
    /\ latestJobs = <<>>
    /\ lpc = "loop"
    /\ IdleBuild /\ IdlePartition /\ IdlePod

NextLatest == GetLatestProwJobs

SpecLatest == InitLatest /\ [][NextLatest]_vars

\* ---- two concurrent ProwJobToPod calls on one record
InitPod ==
    /\ record \in BoundedPodInputs
    /\ heap = InitialHeap(record)
    /\ calls = [p \in Procs |-> NewCall(BuildIDOf(p))]
    /\ IdleBuild /\ IdlePartition /\ IdleLatest

NextPod == \E p \in Procs : ProwJobToPod(p)

SpecPod == InitPod /\ [][NextPod]_vars

---------------------------------------------------------------------------
(* The claims about PartitionActive. *)

\* The records of the input in state st, in input order.
InState(st) == SelectSeq(pjs, LAMBDA pj : pj.State = st)
\* How many records of the input are in state st.
NumInState(st) == Cardinality({ i \in 1..Len(pjs) : pjs[i].State = st })
\* No consumer has taken anything yet: the channels are as returned.
AsReturned == ppc = "done" /\ \A c \in Consumers : consumers[c].got = <<>>
Elems(seq) == { seq[i] : i \in 1..Len(seq) }

\* C1: on return the pending channel holds exactly the Pending records, each
\* once, the triggered channel exactly the Triggered records, each once; a
\* record in any other state is in neither, so the lengths are the numbers of
\* Pending and of Triggered records.
C1_PartitionExact ==
    AsReturned =>
        /\ pending.buf = InState(PendingState)
        /\ triggered.buf = InState(TriggeredState)
        /\ Len(pending.buf) = NumInState(PendingState)
        /\ Len(triggered.buf) = NumInState(TriggeredState)
        /\ \A i \in 1..Len(pjs) :
              pjs[i].State \notin {PendingState, TriggeredState}
                 => pjs[i] \notin Elems(pending.buf) \cup Elems(triggered.buf)

\* A return with a Pending, a Triggered and a completed record in the input.
C1_Witness ==
    /\ AsReturned
    /\ Len(pending.buf) >= 1
    /\ Len(triggered.buf) >= 1
    /\ \E i \in 1..Len(pjs) : pjs[i].State \in {SuccessState, FailureState, AbortedState, ErrorState}

\* What the consumers of group g have received, as a set of <<consumer, position>>.
Receipts(g) ==
    { <<c, j>> : c \in { d \in Consumers : consumers[d].group = g },
                 j \in 1..MaxRecords + 1 }
ReceiptsOf(g, pj) ==
    { r \in Receipts(g) : r[2] <= Len(consumers[r[1]].got) /\ consumers[r[1]].got[r[2]] = pj }
HasConsumer(g) == \E c \in Consumers : consumers[c].group = g
GroupState(g) == IF g = "pending" THEN PendingState ELSE TriggeredState
InBuf(g, pj) == { j \in 1..Len(ChanOf(g).buf) : ChanOf(g).buf[j] = pj }

\* Once returned, every record placed in a group is either still in the
\* channel or in the hands of exactly one consumer of that group, and the
\* consumers hold nothing else.
NoneLostNoneDuplicated ==
    ppc = "done" =>
        \A g \in {"pending", "triggered"} :
            /\ \A i \in 1..Len(pjs) :
                  pjs[i].State = GroupState(g)
                     => Cardinality(ReceiptsOf(g, pjs[i])) + Cardinality(InBuf(g, pjs[i])) = 1
            /\ \A c \in Consumers :
                  consumers[c].group = g
                     => \A j \in 1..Len(consumers[c].got) :
                           consumers[c].got[j].State = GroupState(g)

\* Every consumer has seen its channel closed and drained, and the records
\* of every group that has a consumer are all received.
AllDrained ==
    /\ \A c \in Consumers : consumers[c].done
    /\ \A g \in {"pending", "triggered"} :
          HasConsumer(g) =>
             \A i \in 1..Len(pjs) :
                pjs[i].State = GroupState(g) => Cardinality(ReceiptsOf(g, pjs[i])) = 1

\* C3: after the return, consumers draining the groups in any interleaving
\* receive every record exactly once between them, and every consumer
\* eventually sees its group exhausted.
C3_ConsumersDrain == []NoneLostNoneDuplicated /\ <>[]AllDrained

\* Two consumers of one group have each received a record and both are done.
C3_Witness ==
    /\ \A c \in Consumers : consumers[c].done
    /\ \E c, d \in Consumers :
          /\ c # d
          /\ consumers[c].group = consumers[d].group
          /\ Len(consumers[c].got) >= 1
          /\ Len(consumers[d].got) >= 1

\* Each channel's capacity is the number of records of its state.
CapacityIsCount ==
    ppc \in {"send", "closeTriggered", "done"} =>
        /\ pending.cap = NumInState(PendingState)
        /\ triggered.cap = NumInState(TriggeredState)
\* The send the second pass is about to make has room in the buffer.
NoSendBlocks ==
    (ppc = "send" /\ idx <= Len(pjs)) =>
        /\ pjs[idx].State = PendingState => Len(pending.buf) < pending.cap
        /\ pjs[idx].State = TriggeredState => Len(triggered.buf) < triggered.cap
OccupancyWithinCapacity ==
    /\ Len(pending.buf) <= pending.cap
    /\ Len(triggered.buf) <= triggered.cap
\* As returned, both channels are full and closed.
FullAndClosedOnReturn ==
    AsReturned =>
        /\ Len(pending.buf) = pending.cap /\ pending.closed
        /\ Len(triggered.buf) = triggered.cap /\ triggered.closed

\* C10: PartitionActive terminates with no consumer running: the capacities
\* are the first pass's counts, no send of the second pass blocks, no channel
\* holds more than its capacity, and on return both are full and closed.
C10_PartitionTerminates ==
    /\ [](CapacityIsCount /\ NoSendBlocks /\ OccupancyWithinCapacity /\ FullAndClosedOnReturn)
    /\ <>(ppc = "done")

\* A return with two records in one channel and one in the other.
C10_Witness ==
    /\ AsReturned
    /\ pending.closed /\ triggered.closed
    /\ Len(pending.buf) + Len(triggered.buf) >= 3
    /\ Len(pending.buf) >= 1
    /\ Len(triggered.buf) >= 1

---------------------------------------------------------------------------
(* The claims about the spec builders. *)

TypeOfBuilder ==
    CASE builder = "PresubmitSpec"  -> PresubmitJob
      [] builder = "PostsubmitSpec" -> PostsubmitJob
      [] builder = "PeriodicSpec"   -> PeriodicJob
      [] builder = "BatchSpec"      -> BatchJob
      [] OTHER                      -> ""

RECURSIVE Mirrors(_, _, _)
\* The spec node carries the type and the template's name, and its children
\* mirror the template's children, one for one and in order.
Mirrors(pjs0, p, type) ==
    /\ pjs0.Type = type
    /\ pjs0.Job = p.Name
    /\ Len(pjs0.RunAfterSuccess) = Len(p.RunAfterSuccess)
    /\ \A i \in 1..Len(p.RunAfterSuccess) :
          Mirrors(pjs0.RunAfterSuccess[i], p.RunAfterSuccess[i], type)

RECURSIVE Depth(_)
\* The number of levels of a template or spec tree.
Depth(t) ==
    IF t.RunAfterSuccess = <<>> THEN 1
    ELSE 1 + CHOOSE m \in 1..MaxNodes + 1 :
               /\ \E i \in 1..Len(t.RunAfterSuccess) : Depth(t.RunAfterSuccess[i]) = m
               /\ \A i \in 1..Len(t.RunAfterSuccess) : Depth(t.RunAfterSuccess[i]) <= m

\* C7: the spec a builder returns mirrors the template's RunAfterSuccess
\* chain at every depth: as many children, in the same order, each with the
\* job name of its template, every node with the builder's type.
C7_ChainMirrored == IsSpec(built) => Mirrors(built, tmpl, TypeOfBuilder)

\* PresubmitSpec built a spec from a template with two children and a grandchild.
C7_Witness ==
    /\ builder = "PresubmitSpec"
    /\ IsSpec(built)
    /\ Len(tmpl.RunAfterSuccess) >= 2
    /\ Depth(tmpl) >= 3
    /\ tmpl.RunAfterSuccess[1].Name # tmpl.RunAfterSuccess[2].Name

RECURSIVE AllRefs(_, _)
\* Every node of the spec tree carries the refs r.
AllRefs(pjs0, r) ==
    /\ pjs0.Refs = r
    /\ \A i \in 1..Len(pjs0.RunAfterSuccess) : AllRefs(pjs0.RunAfterSuccess[i], r)

\* C8: every node of a chain built by PresubmitSpec, PostsubmitSpec or
\* BatchSpec carries the refs of the top-level call; every node of a chain
\* built by PeriodicSpec carries the empty refs.
C8_RefsPropagated ==
    IsSpec(built) =>
        AllRefs(built, IF builder = "PeriodicSpec" THEN EmptyRefs ELSE refs)

\* BatchSpec built a spec three levels deep from non-empty refs.
C8_Witness ==
    /\ builder = "BatchSpec"
    /\ IsSpec(built)
    /\ refs # EmptyRefs
    /\ Depth(built) >= 3

---------------------------------------------------------------------------
(* The claims about GetLatestProwJobs. *)

\* The input positions of the records of the requested type with job name n.
OfJob(n) == { i \in 1..Len(ljobs) : ljobs[i].Type = jobType /\ ljobs[i].Job = n }
\* The job names the records of the requested type carry.
NamesOfType == { ljobs[i].Job : i \in { k \in 1..Len(ljobs) : ljobs[k].Type = jobType } }

\* C4: the returned map's keys are exactly the job names of the input's
\* records of the requested type, every value is a record of that type and
\* name, and its start time is at least that of every such record.
C4_LatestPerJobName ==
    lpc = "done" =>
        /\ DOMAIN latestJobs = NamesOfType
        /\ \A n \in DOMAIN latestJobs :
              /\ latestJobs[n].Type = jobType
              /\ latestJobs[n].Job = n
              /\ \A i \in OfJob(n) : latestJobs[n].StartTime >= ljobs[i].StartTime

\* The part of C4 the code keeps: no key beyond the names of the type, and
\* each value is a latest record of its name.
C4_LatestOfPresentNames ==
    lpc = "done" =>
        /\ DOMAIN latestJobs \subseteq NamesOfType
        /\ \A n \in DOMAIN latestJobs :
              /\ latestJobs[n].Type = jobType
              /\ latestJobs[n].Job = n
              /\ \A i \in OfJob(n) : latestJobs[n].StartTime >= ljobs[i].StartTime
        /\ \A n \in NamesOfType :
              (\E i \in OfJob(n) : ljobs[i].StartTime > ZeroTime) => n \in DOMAIN latestJobs

\* The first input position among the records of name n with the greatest start time.
FirstOfLatest(n) ==
    CHOOSE i \in OfJob(n) :
        /\ \A k \in OfJob(n) : ljobs[k].StartTime <= ljobs[i].StartTime
        /\ \A k \in OfJob(n) : ljobs[k].StartTime = ljobs[i].StartTime => i <= k

\* C9: when records of the requested type share a job name and its greatest
\* start time, the map keeps the first of them in input order.
C9_FirstOfLatestKept ==
    lpc = "done" =>
        \A n \in NamesOfType :
            Cardinality({ i \in OfJob(n) :
                            ljobs[i].StartTime = ljobs[FirstOfLatest(n)].StartTime }) >= 2
               => /\ n \in DOMAIN latestJobs
                  /\ latestJobs[n] = ljobs[FirstOfLatest(n)]

\* The part of C9 the code keeps: a holder is replaced only by a record with
\* a strictly greater start time.
C9_ReplacedOnlyByLater ==
    [][\A n \in DOMAIN latestJobs :
          latestJobs'[n] # latestJobs[n] => latestJobs'[n].StartTime > latestJobs[n].StartTime]_vars

\* The part of C9 the code keeps: of the names the map holds, it holds the
\* first of the latest.
C9_FirstKeptWhenPresent ==
    lpc = "done" =>
        \A n \in DOMAIN latestJobs : latestJobs[n] = ljobs[FirstOfLatest(n)]

---------------------------------------------------------------------------
(* The claims about ProwJobToPod. *)

\* What a slice shows: the first len cells of its backing array.
EnvOf(c) == SubSeq(heap[c.Env.arr], 1, c.Env.len)
\* A returned pod as its reader sees it: every Env by value.
ContainersView(list) == [i \in 1..Len(list) |-> [Name |-> list[i].Name, Env |-> EnvOf(list[i])]]
UnitView(pod) ==
    [Name |-> pod.Name, Labels |-> pod.Labels, Annotations |-> pod.Annotations,
     RestartPolicy |-> pod.Spec.RestartPolicy,
     InitContainers |-> ContainersView(pod.Spec.InitContainers),
     Containers |-> ContainersView(pod.Spec.Containers)]

AllReturned == \A p \in Procs : calls[p].pc = "done"
Succeeded(p) == calls[p].pc = "done" /\ calls[p].derived = "ok"

\* The entries the template gave source container c.
SourceEnv(c) == [j \in 1..c.Env.len |-> PreEnvVar]
\* The name a container of the unit is to carry.
ExpectedName(c, i1) == IF c.Name = "" THEN Sprintf(record.Name, i1 - 1) ELSE c.Name

\* The list is what a call running alone makes of the source list: the
\* names defaulted, and each Env the template's entries followed by the
\* derived entries for build id b, in one of kubeEnv's orders.
LoneList(view, src, b) ==
    /\ Len(view) = Len(src)
    /\ \A i \in 1..Len(src) :
          /\ view[i].Name = ExpectedName(src[i], i)
          /\ \E kenv \in KubeEnv(EnvForSpec(record, b, TRUE).env) :
                view[i].Env = SourceEnv(src[i]) \o kenv

\* The unit is one a lone ProwJobToPod(record, b) returns.
LoneUnit(u, b) ==
    /\ u.Name = record.Name
    /\ u.Labels = PodLabels(record)
    /\ u.Annotations = (ProwJobAnnotation :> record.Job)
    /\ u.RestartPolicy = "Never"
    /\ LoneList(u.InitContainers, record.InitContainers, b)
    /\ LoneList(u.Containers, record.Containers, b)

\* The source record's backing arrays are as they were, spare cells included.
SourceUntouched == \A a \in DOMAIN InitialHeap(record) : heap[a] = InitialHeap(record)[a]

\* C2: after two calls on the same record, in any interleaving, each returned
\* unit is one a lone call would return and the record's pod template,
\* spare capacity of the backing arrays included, is unchanged.
C2_NoInterference ==
    AllReturned =>
        /\ \A p \in Procs : Succeeded(p) => LoneUnit(UnitView(calls[p].pod), calls[p].buildID)
        /\ SourceUntouched

\* The half of C2 about the returned units alone.
C2_UnitsAsLone ==
    AllReturned =>
        \A p \in Procs : Succeeded(p) => LoneUnit(UnitView(calls[p].pod), calls[p].buildID)

\* The half of C2 that fails even without a second call: one call alone
\* leaves the source's backing arrays as they were.
C2_LoneCallLeavesSource ==
    (\E p \in Procs : Succeeded(p) /\ \A q \in Procs \ {p} : calls[q].pc = "start")
        => SourceUntouched

\* The containers of a returned pod with the source container each was
\* copied from: <<list, position>>.
Slots == { <<"init", i>> : i \in 1..Len(record.InitContainers) }
            \cup { <<"cont", i>> : i \in 1..Len(record.Containers) }
SourceAt(sl) == SourceList(record, sl[1])[sl[2]]
NameAt(pod, sl) ==
    IF sl[1] = "init" THEN pod.Spec.InitContainers[sl[2]].Name
    ELSE pod.Spec.Containers[sl[2]].Name

\* C5: in a returned unit every container or init-container without an
\* explicit name carries the name made of the record's name and its index,
\* and no other container or init-container of the unit carries that name.
C5_DefaultNamesUnique ==
    \A p \in Procs :
        Succeeded(p) =>
            \A sl \in Slots :
                SourceAt(sl).Name = "" =>
                    /\ NameAt(calls[p].pod, sl) = Sprintf(record.Name, sl[2] - 1)
                    /\ \A other \in Slots \ {sl} :
                          NameAt(calls[p].pod, other) # NameAt(calls[p].pod, sl)

\* The part of C5 the code keeps: the default name is the record's name and
\* the index, and it is unique within its own list's defaulted names.
C5_DefaultNamesDeterministic ==
    \A p \in Procs :
        Succeeded(p) =>
            \A sl \in Slots :
                SourceAt(sl).Name = "" =>
                    /\ NameAt(calls[p].pod, sl) = Sprintf(record.Name, sl[2] - 1)
                    /\ \A other \in Slots \ {sl} :
                          (other[1] = sl[1] /\ SourceAt(other).Name = "")
                             => NameAt(calls[p].pod, other) # NameAt(calls[p].pod, sl)

\* A call whose deriver failed has returned the error and a nil pod; a call
\* whose deriver succeeded has returned a pod and no error.
ReturnsMatchDeriver ==
    \A p \in Procs :
        calls[p].pc = "done" =>
            /\ calls[p].derived = "failed" => (calls[p].pod = NilPod /\ calls[p].err = DerivationError)
            /\ calls[p].derived = "ok" => (calls[p].pod # NilPod /\ calls[p].err = Nil)
            /\ calls[p].derived # "none"
\* The step in which a call's deriver fails leaves the record and its arrays alone.
FailureLeavesRecord ==
    \A p \in Procs :
        (calls[p].derived = "none" /\ calls'[p].derived = "failed")
            => (record' = record /\ heap' = heap /\ calls'[p].pc = "done")

\* C6: when the deriver fails ProwJobToPod returns the error and a nil pod
\* and leaves the record unchanged; when it succeeds, a pod and no error.
C6_ErrorMeansNoPod == []ReturnsMatchDeriver /\ [][FailureLeavesRecord]_vars

\* One call's deriver failed, the other's succeeded on a record with
\* containers, and both have returned.
C6_Witness ==
    /\ AllReturned
    /\ \E p, q \in Procs :
          /\ calls[p].derived = "failed" /\ calls[p].pod = NilPod
          /\ calls[q].derived = "ok" /\ calls[q].pod # NilPod
          /\ Len(calls[q].pod.Spec.Containers) >= 1

===========================================================================
